---- MODULE Spec2Model ----
(***************************************************************************)
(* Verification model of the push-visualisation core of step189-2020:      *)
(*   - TimelineComponent.divideIntoRows, the multi-pass row packing of the *)
(*     timeline (web/src/app/components/timeline/timeline.component.ts);   *)
(*   - the CDF table and its lookups: populateData and                     *)
(*     getProbabilityForDuration (the CDF utilities, in both the           *)
(*     percentage and the earlier fraction variant);                       *)
(*   - the chart helpers getDurationforProbability, generateQuantiles,     *)
(*     generateYPosition and addCurrentPushLine of the CDF utilities;      *)
(*   - the extraction of the three charts of a page (timeline, CDF, bar    *)
(*     chart) from the pushInfos array they share;                         *)
(*   - generateLabels, the labels of the bar chart's box plot.             *)
(*                                                                         *)
(* Six specifications share the variables: SpecRows runs divideIntoRows    *)
(* statement by statement on a bounded set of inputs and SpecSharedIDs on  *)
(* inputs with repeated pushIDs, SpecCdf builds the CDF table of a bounded *)
(* set of push lists and queries it, SpecChart calls the chart helpers on  *)
(* such tables, SpecPage lets the charts of a page extract their data from *)
(* one array in any order, and SpecLabels calls generateLabels.            *)
(***************************************************************************)
EXTENDS Integers, Sequences, FiniteSets, TLC

VARIABLES
    \* ---- timeline ----
    input,                  \* the Item array handed to divideIntoRows
    items,                  \* the same array object after the in-place sort
    data,                   \* local `data`: references (indices) into items
    overlappingIntervals,   \* local list of deferred references
    rowIndex,               \* local rowIndex; the returned value at "done"
    lastEndTime,            \* local lastEndTime
    k,                      \* position of the for-of loop in data
    pc,                     \* control point of divideIntoRows
    \* ---- CDF ----
    variant,                \* "percent" (current utilities) or "fraction"
    pushInfos,              \* the push records handed to populateData
    durationUnit,           \* the unit of the table's durations
    table,                  \* the Item[] populateData returned
    queryDuration,          \* argument of the last getProbabilityForDuration
    queryResult,            \* its outcome
    cpc,                    \* control point of the CDF component
    \* ---- chart helpers of the CDF utilities ----
    xScale,                 \* the d3 linear scale handed to the helpers
    queryProbability,       \* argument of the last getDurationforProbability
    durationResult,         \* its outcome
    percentileLines,        \* argument of the running generateQuantiles call
    depth,                  \* number of nested generateQuantiles calls below the first
    quantiles,              \* what generateQuantiles returned
    dotRadius,              \* the radius handed to generateYPosition
    xVals,                  \* the durations handed to generateYPosition
    yPosition,              \* what generateYPosition returned
    vpc,                    \* control point of the helper calls
    currentPush,            \* the push handed to addCurrentPushLine
    currentPushLine,        \* ids of the elements appended to the current-push group
    \* ---- the charts of one page, sharing the pushInfos array ----
    handedOut,              \* the pushInfos array as the page handed it out
    barData,                \* what the bar chart's populateData returned
    calls,                  \* the extractions called so far, in order
    raised,                 \* TRUE when the last extraction threw a TypeError
    \* ---- the box plot of the bar chart ----
    boxLabels,              \* [min, q1, median, q3, max] handed to generateLabels
    yScaleFocus,            \* the y scale of the focus chart
    dataLabels              \* what generateLabels returned

rowVars == <<input, items, data, overlappingIntervals, rowIndex, lastEndTime, k, pc>>
cdfVars == <<variant, pushInfos, durationUnit, table, queryDuration, queryResult, cpc>>
chartVars == <<xScale, queryProbability, durationResult, percentileLines, depth,
               quantiles, dotRadius, xVals, yPosition, vpc, currentPush,
               currentPushLine>>
pageVars == <<handedOut, barData, calls, raised, boxLabels, yScaleFocus, dataLabels>>
vars == <<rowVars, cdfVars, chartVars, pageVars>>

----------------------------------------------------------------------------
(* Bounds of the model.                                                    *)

\* Longest interval list explored exhaustively.
MaxIntervals == 3
\* Largest timestamp (in milliseconds) of an exhaustively explored interval.
MaxTime == 3
\* Longest push list explored exhaustively.
MaxPushes == 3
\* Longest push duration (in seconds) of an exhaustively explored push.
MaxDuration == 3
\* Longest duration list handed to generateYPosition.
MaxDots == 3
\* Longest pushInfos array of a page, and the number of charts it renders.
MaxRecords == 2
MaxCalls == 2
\* The largest box plot value, in steps of 4 duration units.
MaxLabel == 8

----------------------------------------------------------------------------
(* Generic helpers.                                                        *)

Range(s) == {s[i] : i \in DOMAIN s}

SeqsUpTo(S, n) == UNION {[1..m -> S] : m \in 0..n}

Max(S) == CHOOSE x \in S : \A y \in S : y <= x

Min(S) == CHOOSE x \in S : \A y \in S : x <= y

----------------------------------------------------------------------------
(* Timeline: Item and divideIntoRows.                                      *)

\* interface Item, without the `state` colour tag that divideIntoRows never
\* reads.  populateData constructs every Item with row: 0.
Item(id, s, e) == [pushID |-> id, startTime |-> s, endTime |-> e, row |-> 0]

\* Insert x before the elements whose startTime equals x.startTime.
RECURSIVE InsertBeforeTies(_, _)
InsertBeforeTies(sorted, x) ==
    IF sorted = <<>> THEN <<x>>
    ELSE IF sorted[Len(sorted)].startTime < x.startTime
         THEN Append(sorted, x)
         ELSE Append(InsertBeforeTies(SubSeq(sorted, 1, Len(sorted) - 1), x),
                     sorted[Len(sorted)])

\* Insert x after every element whose startTime is <= x.startTime.
RECURSIVE InsertByStart(_, _)
InsertByStart(sorted, x) ==
    IF sorted = <<>> THEN <<x>>
    ELSE IF sorted[Len(sorted)].startTime <= x.startTime
         THEN Append(sorted, x)
         ELSE Append(InsertByStart(SubSeq(sorted, 1, Len(sorted) - 1), x),
                     sorted[Len(sorted)])

\* data.sort((a, b) => a.startTime - b.startTime): Array.prototype.sort is
\* stable, elements that compare equal keep their input order.
RECURSIVE SortByStartTime(_)
SortByStartTime(s) ==
    IF s = <<>> THEN <<>>
    ELSE InsertByStart(SortByStartTime(SubSeq(s, 1, Len(s) - 1)), s[Len(s)])

\* The test of the pass: interval.startTime >= lastEndTime.
FitsGreater(interval, lastEnd) == interval.startTime > lastEnd

FitsByEnd(interval, lastEnd) == interval.endTime >= lastEnd

Fits(interval, lastEnd) == interval.startTime >= lastEnd

\* The reference 0 stands for `undefined` (data[0] of an empty array, the
\* result of a find that matches nothing).
Undefined == 0

\* data.find(({pushID}) => pushID === interval.pushID): the first element of
\* the current list with that pushID, as a reference into items; 0 when the
\* list holds none (undefined).
FindByPushID(its, refs, id) ==
    LET hits == {j \in DOMAIN refs : its[refs[j]].pushID = id}
    IN  IF hits = {} THEN Undefined ELSE refs[Min(hits)]

AssignRowOneBased(its, ref, row) == [its EXCEPT ![ref].row = row + 1]

\* intervalInData.row = rowIndex
AssignRow(its, ref, row) == [its EXCEPT ![ref].row = row]

Sort ==
    /\ pc = "sort"
    /\ items' = SortByStartTime(input)
    /\ data' = [i \in 1..Len(input) |-> i]
    /\ overlappingIntervals' = IF Len(input) = 0 THEN <<Undefined>> ELSE <<1>>
    /\ rowIndex' = 0
    /\ pc' = "while"
    /\ UNCHANGED <<input, lastEndTime, k>>
    /\ UNCHANGED <<cdfVars, chartVars, pageVars>>

WhileEnter ==
    /\ pc = "while"
    /\ Len(overlappingIntervals) # 0
    /\ lastEndTime' = 0
    /\ overlappingIntervals' = <<>>
    /\ k' = 1
    /\ pc' = "for"
    /\ UNCHANGED <<input, items, data, rowIndex>>
    /\ UNCHANGED <<cdfVars, chartVars, pageVars>>

ForStep ==
    /\ pc = "for"
    /\ k <= Len(data)
    /\ LET interval == items[data[k]]
       IN  IF Fits(interval, lastEndTime)
           THEN LET intervalInData == FindByPushID(items, data, interval.pushID)
                IN  /\ items' = IF intervalInData # Undefined
                                THEN AssignRow(items, intervalInData, rowIndex)
                                ELSE items
                    /\ lastEndTime' = interval.endTime
                    /\ UNCHANGED overlappingIntervals
           ELSE /\ overlappingIntervals' = Append(overlappingIntervals, data[k])
                /\ UNCHANGED <<items, lastEndTime>>
    /\ k' = k + 1
    /\ UNCHANGED <<input, data, rowIndex, pc>>
    /\ UNCHANGED <<cdfVars, chartVars, pageVars>>

EndPass ==
    /\ pc = "for"
    /\ k > Len(data)
    /\ rowIndex' = rowIndex + 1
    /\ lastEndTime' = 0
    /\ data' = overlappingIntervals
    /\ pc' = "while"
    /\ UNCHANGED <<input, items, overlappingIntervals, k>>
    /\ UNCHANGED <<cdfVars, chartVars, pageVars>>

Return ==
    /\ pc = "while"
    /\ Len(overlappingIntervals) = 0
    /\ pc' = "done"
    /\ UNCHANGED <<input, items, data, overlappingIntervals, rowIndex, lastEndTime, k>>
    /\ UNCHANGED <<cdfVars, chartVars, pageVars>>

\* Intervals with 0 <= startTime <= endTime <= MaxTime.
Spans == {se \in (0..MaxTime) \X (0..MaxTime) : se[1] <= se[2]}

\* Item lists as populateData builds them: the pushID is the push handle,
\* which identifies the push, so the pushIDs of a list are pairwise distinct.
MkItems(spans) == [i \in DOMAIN spans |-> Item(i, spans[i][1], spans[i][2])]

\* The example scenario of the specification.
ExampleIntervals == MkItems(<<<<0, 10>>, <<5, 15>>, <<10, 20>>, <<20, 30>>, <<25, 35>>>>)

RowInputs == {MkItems(s) : s \in SeqsUpTo(Spans, MaxIntervals)} \cup {ExampleIntervals}

CdfIdle ==
    /\ variant = "percent"
    /\ pushInfos = <<>>
    /\ durationUnit = ""
    /\ table = <<>>
    /\ queryDuration = <<0, 1>>
    /\ queryResult = [kind |-> "none", value |-> <<0, 1>>]
    /\ cpc = "idle"

ChartIdle ==
    /\ xScale = [domain |-> 1, range |-> 1]
    /\ queryProbability = <<0, 1>>
    /\ durationResult = [kind |-> "none", value |-> <<0, 1>>]
    /\ percentileLines = <<>>
    /\ depth = 0
    /\ quantiles = [kind |-> "none", markers |-> <<>>]
    /\ dotRadius = 0
    /\ xVals = <<>>
    /\ yPosition = <<>>
    /\ vpc = "idle"
    /\ currentPush = [isNull |-> TRUE, pushHandle |-> 0, hasStateInfo |-> FALSE,
                      stateInfo |-> <<>>]
    /\ currentPushLine = <<>>

BoxIdle ==
    /\ boxLabels = <<>>
    /\ yScaleFocus = [domain |-> 1, bottom |-> 1, top |-> 0]
    /\ dataLabels = <<>>

PageIdle ==
    /\ BoxIdle
    /\ handedOut = <<>>
    /\ barData = <<>>
    /\ calls = <<>>
    /\ raised = FALSE

InitRows ==
    /\ input \in RowInputs
    /\ items = input
    /\ data = <<>>
    /\ overlappingIntervals = <<>>
    /\ rowIndex = 0
    /\ lastEndTime = 0
    /\ k = 0
    /\ pc = "sort"
    /\ CdfIdle
    /\ ChartIdle
    /\ PageIdle

\* divideIntoRows, statement by statement.
NextRows == Sort \/ WhileEnter \/ ForStep \/ EndPass \/ Return

SpecRows == InitRows /\ [][NextRows]_vars

\* Item lists in which two records of the array carry the same push handle:
\* populateData copies pushHandle into pushID without comparing handles, so
\* the intervals at input positions 2 and 3 share their pushID.
MkItemsSharingIDs(spans) ==
    [i \in DOMAIN spans |-> Item((i \div 2) + 1, spans[i][1], spans[i][2])]

SharedIDInputs == {MkItemsSharingIDs(s) : s \in SeqsUpTo(Spans, MaxIntervals)}

InitSharedIDs ==
    /\ input \in SharedIDInputs
    /\ items = input
    /\ data = <<>>
    /\ overlappingIntervals = <<>>
    /\ rowIndex = 0
    /\ lastEndTime = 0
    /\ k = 0
    /\ pc = "sort"
    /\ CdfIdle
    /\ ChartIdle
    /\ PageIdle

\* divideIntoRows on lists with repeated pushIDs.
SpecSharedIDs == InitSharedIDs /\ [][NextRows]_vars

----------------------------------------------------------------------------
(* Numbers of the CDF utilities.                                           *)
(*                                                                         *)
(* A JavaScript number is modelled as an exact fraction <<n, d>> with      *)
(* d > 0; <<n, 0>> is NaN, the result of a division by undefined, and      *)
(* every comparison with NaN is false.                                     *)

Frac(n, d) == <<n, d>>

IsNaN(a) == a[2] = 0

RLess(a, b) == ~IsNaN(a) /\ ~IsNaN(b) /\ a[1] * b[2] < b[1] * a[2]

RLeq(a, b) == ~IsNaN(a) /\ ~IsNaN(b) /\ a[1] * b[2] <= b[1] * a[2]

REq(a, b) == ~IsNaN(a) /\ ~IsNaN(b) /\ a[1] * b[2] = b[1] * a[2]

\* x / divisor for an integer x; the divisor 0 stands for undefined.
Divide(x, divisor) == Frac(x, divisor)

RECURSIVE Gcd(_, _)
Gcd(a, b) == IF b = 0 THEN a ELSE Gcd(b, a % b)

Abs(n) == IF n < 0 THEN -n ELSE n

\* The same number in lowest terms with a positive denominator; NaN is <<0, 0>>.
Reduce(a) ==
    IF a[2] = 0 THEN Frac(0, 0)
    ELSE LET g == Gcd(Abs(a[1]), Abs(a[2]))
             sgn == IF a[2] < 0 THEN -1 ELSE 1
         IN  Frac(sgn * (a[1] \div g), sgn * (a[2] \div g))

\* a + b, a - b, a * b and a / b of JavaScript numbers.  A NaN operand gives
\* NaN; so does a division by 0, which no caller below reaches with a
\* non-NaN dividend.
RAdd(a, b) == Reduce(Frac(a[1] * b[2] + b[1] * a[2], a[2] * b[2]))

RSub(a, b) == Reduce(Frac(a[1] * b[2] - b[1] * a[2], a[2] * b[2]))

RMul(a, b) == Reduce(Frac(a[1] * b[1], a[2] * b[2]))

RDiv(a, b) == Reduce(Frac(a[1] * b[2], a[2] * b[1]))

\* Math.round: the nearest integer, halves rounded up.
Round(a) ==
    IF IsNaN(a) THEN Frac(0, 0)
    ELSE LET r == Reduce(a) IN Frac((2 * r[1] + r[2]) \div (2 * r[2]), 1)

----------------------------------------------------------------------------
(* Push records (step189_2020.IPushInfo).  Time is counted in whole        *)
(* seconds, so the NANO_TO_* constants below are the source's divided by   *)
(* 10^9.  A startTimeNsec or state of 0 and a stage of "" are the falsy    *)
(* values of a missing field.                                              *)

NANO_TO_SECONDS == 1
NANO_TO_MINUTES == 60
NANO_TO_HOURS == 3600
NANO_TO_DAYS == 86400

COMPLETED_STATE_TAG == 5

\* UNIT_CONVERSION[unit]; 0 stands for undefined (unit '').
UNIT_CONVERSION(unit) ==
    CASE unit = "seconds" -> NANO_TO_SECONDS
      [] unit = "minutes" -> NANO_TO_MINUTES
      [] unit = "hours" -> NANO_TO_HOURS
      [] unit = "days" -> NANO_TO_DAYS
      [] OTHER -> 0

StateInfo(stage, state, t) == [stage |-> stage, state |-> state, startTimeNsec |-> t]

PushInfo(handle, states) ==
    [isNull |-> FALSE, pushHandle |-> handle, hasStateInfo |-> TRUE, stateInfo |-> states]

NullPushInfo ==
    [isNull |-> TRUE, pushHandle |-> 0, hasStateInfo |-> FALSE, stateInfo |-> <<>>]

\* The last element of a non-empty state list.
LastState(states) == states[Len(states)]

\* As findDuration, but starting at the first state whatever its stage.
findDurationFromFirst(pushInfo) ==
    LET states == pushInfo.stateInfo
    IN  IF ~pushInfo.hasStateInfo \/ Len(states) = 0
        THEN [found |-> FALSE, startNsec |-> 0, endNsec |-> 0]
        ELSE IF LastState(states).startTimeNsec = 0 \/ states[1].startTimeNsec = 0
        THEN [found |-> FALSE, startNsec |-> 0, endNsec |-> 0]
        ELSE [found |-> TRUE,
              startNsec |-> states[1].startTimeNsec,
              endNsec |-> LastState(states).startTimeNsec]

\* findDuration: the start of the first state with a stage and a start time
\* and the start of the last state; `found` is FALSE for undefined.
findDuration(pushInfo) ==
    LET states == pushInfo.stateInfo
        staged == {i \in DOMAIN states :
                      states[i].stage # "" /\ states[i].startTimeNsec # 0}
    IN  IF ~pushInfo.hasStateInfo \/ staged = {} \/ Len(states) = 0
        THEN [found |-> FALSE, startNsec |-> 0, endNsec |-> 0]
        ELSE IF LastState(states).startTimeNsec = 0
        THEN [found |-> FALSE, startNsec |-> 0, endNsec |-> 0]
        ELSE [found |-> TRUE,
              startNsec |-> states[Min(staged)].startTimeNsec,
              endNsec |-> LastState(states).startTimeNsec]

\* The guards shared by the forEach bodies: the record is skipped when it is
\* null, has no state list, or its last state lacks a start time or a state.
Skipped(pushInfo) ==
    \/ pushInfo.isNull
    \/ ~pushInfo.hasStateInfo
    \/ LastState(pushInfo.stateInfo).startTimeNsec = 0
    \/ LastState(pushInfo.stateInfo).state = 0

\* states[states.length - 1] of an empty array is undefined, and reading its
\* startTimeNsec throws a TypeError.
Throws(pushInfo) ==
    ~pushInfo.isNull /\ pushInfo.hasStateInfo /\ Len(pushInfo.stateInfo) = 0

\* The unit findDurationUnit counts for one push: the first of days, hours,
\* minutes, seconds with nsecDuration / UNIT_CONVERSION[unit] > 1, else none.
UnitOf(nsecDuration) ==
    IF nsecDuration > NANO_TO_DAYS THEN "days"
    ELSE IF nsecDuration > NANO_TO_HOURS THEN "hours"
    ELSE IF nsecDuration > NANO_TO_MINUTES THEN "minutes"
    ELSE IF nsecDuration > NANO_TO_SECONDS THEN "seconds"
    ELSE ""

\* Object.entries(unitCounter) in insertion order.
UnitOrder == <<"seconds", "minutes", "hours", "days">>

\* findDurationUnit: the unit counted most often, the earliest of UnitOrder
\* on a tie, '' when no push was counted.
findDurationUnit(infos) ==
    LET counted == {i \in DOMAIN infos :
                       /\ ~Skipped(infos[i])
                       /\ findDuration(infos[i]).found}
        unitCounter(unit) ==
            Cardinality({i \in counted :
                UnitOf(LastState(infos[i].stateInfo).startTimeNsec
                          - findDuration(infos[i]).startNsec) = unit})
        RECURSIVE Best(_, _, _)
        Best(j, max, bestUnit) ==
            IF j > Len(UnitOrder) THEN bestUnit
            ELSE IF unitCounter(UnitOrder[j]) > max
                 THEN Best(j + 1, unitCounter(UnitOrder[j]), UnitOrder[j])
                 ELSE Best(j + 1, max, bestUnit)
    IN  Best(1, 0, "")

\* sort((n1, n2) => n1.duration - n2.duration), a stable sort: an element
\* goes behind the elements with a smaller duration and behind the earlier
\* elements it does not compare smaller than (a comparator result of NaN
\* counts as 0).
SortByDuration(s) ==
    LET Before(j, i) ==
            \/ RLess(s[j].duration, s[i].duration)
            \/ (~RLess(s[i].duration, s[j].duration) /\ j < i)
        position == [i \in DOMAIN s |-> Cardinality({j \in DOMAIN s : Before(j, i)}) + 1]
    IN  [r \in DOMAIN s |-> s[CHOOSE i \in DOMAIN s : position[i] = r]]

RankProbabilityZeroBased(i, n) == Frac((i - 1) * 100, n)

RankProbabilityDescending(i, n) == Frac((n - i + 1) * 100, n)

\* probability: (i + 1) * 100 / durationLength, for the 1-based position i.
RankProbability(i, n) == Frac(i * 100, n)

\* probability = (i + 1) / durationLength of the fraction variant.
RankFraction(i, n) == Frac(i, n)

\* populateData of the current CDF utilities (percentages, durations in the
\* unit of findDurationUnit).  threw is TRUE when a TypeError escapes.
populateData(infos) ==
    LET divisor == UNIT_CONVERSION(findDurationUnit(infos))
        Keep(pushInfo) == ~Skipped(pushInfo) /\ findDuration(pushInfo).found
        Map(pushInfo) ==
            LET startEnd == findDuration(pushInfo)
            IN  [duration |-> Divide(startEnd.endNsec - startEnd.startNsec, divisor),
                 probability |-> Frac(0, 1),
                 endState |-> LastState(pushInfo.stateInfo).state]
        kept == SelectSeq(infos, Keep)
        pushes == [i \in DOMAIN kept |-> Map(kept[i])]
        completed == SelectSeq(pushes, LAMBDA d : d.endState = 5)
        sortedArray == SortByDuration(completed)
        durationLength == Len(sortedArray)
    IN  IF \E i \in DOMAIN infos : Throws(infos[i])
        THEN [threw |-> TRUE, data |-> <<>>]
        ELSE [threw |-> FALSE,
              data |-> [i \in 1..durationLength |->
                          [duration |-> sortedArray[i].duration,
                           probability |-> RankProbability(i, durationLength),
                           endState |-> sortedArray[i].endState]]]

\* populateData of the earlier CDF utilities (fractions, durations in
\* minutes, completed pushes selected inside the forEach).
populateDataFraction(infos) ==
    LET Keep(pushInfo) ==
            /\ ~Skipped(pushInfo)
            /\ LastState(pushInfo.stateInfo).state = COMPLETED_STATE_TAG
            /\ \E i \in DOMAIN pushInfo.stateInfo :
                  /\ pushInfo.stateInfo[i].stage # ""
                  /\ pushInfo.stateInfo[i].startTimeNsec # 0
        Map(pushInfo) ==
            LET states == pushInfo.stateInfo
                first == Min({i \in DOMAIN states :
                                 states[i].stage # "" /\ states[i].startTimeNsec # 0})
            IN  [duration |-> Divide(LastState(states).startTimeNsec
                                        - states[first].startTimeNsec, NANO_TO_MINUTES)]
        kept == SelectSeq(infos, Keep)
        durations == [i \in DOMAIN kept |-> Map(kept[i])]
        sortedArray == SortByDuration(durations)
        durationLength == Len(sortedArray)
    IN  IF \E i \in DOMAIN infos : Throws(infos[i])
        THEN [threw |-> TRUE, data |-> <<>>]
        ELSE [threw |-> FALSE,
              data |-> [i \in 1..durationLength |->
                          [duration |-> sortedArray[i].duration,
                           probability |-> RankFraction(i, durationLength)]]]

\* d3.bisectLeft(a, x) with the default ascending comparator, from the search
\* window [lo, hi) of 0-based positions: the loop
\*   mid = (lo + hi) >>> 1; if (a[mid] < x) lo = mid + 1; else hi = mid.
RECURSIVE BisectLeftIn(_, _, _, _)
BisectLeftIn(a, x, lo, hi) ==
    IF lo < hi
    THEN LET mid == (lo + hi) \div 2
         IN  IF RLess(a[mid + 1], x)
             THEN BisectLeftIn(a, x, mid + 1, hi)
             ELSE BisectLeftIn(a, x, lo, mid)
    ELSE lo

bisectLeft(a, x) == BisectLeftIn(a, x, 0, Len(a))

NoResult == [kind |-> "none", value |-> Frac(0, 1)]

TypeError == [kind |-> "TypeError", value |-> Frac(0, 1)]

Value(v) == [kind |-> "value", value |-> v]

\* getProbabilityForDuration: data[index - 1].probability, a TypeError when
\* index - 1 is -1 (data[-1] is undefined).
getProbabilityForDuration(tbl, duration) ==
    LET allDurations == [i \in DOMAIN tbl |-> tbl[i].duration]
        index == bisectLeft(allDurations, duration)
    IN  IF index - 1 < 0 THEN TypeError ELSE Value(tbl[index].probability)

\* The ids of the elements addCurrentPushLine appends: the arrow marker
\* definition, then the line, the two arrow lines and the text.
CurrentPushElements ==
    <<"arrow", "current-push-line", "current-push-text-line",
      "current-push-text-line-arrow", "current-push-text">>

\* addCurrentPushLine: what it appended to the group and whether a
\* TypeError escaped.  The marker definition is appended before the
\* probability of the duration is looked up.
addCurrentPushLine(unit, push, tbl) ==
    LET states == push.stateInfo
        startEnd == findDuration(push)
        duration == Divide(startEnd.endNsec - startEnd.startNsec, UNIT_CONVERSION(unit))
    IN  IF ~push.hasStateInfo THEN [threw |-> FALSE, appended |-> <<>>]
        ELSE IF Len(states) = 0 THEN [threw |-> TRUE, appended |-> <<>>]
        ELSE IF LastState(states).startTimeNsec = 0 THEN [threw |-> FALSE, appended |-> <<>>]
        ELSE IF LastState(states).state = 0 THEN [threw |-> FALSE, appended |-> <<>>]
        ELSE IF LastState(states).state # COMPLETED_STATE_TAG
        THEN [threw |-> FALSE, appended |-> <<>>]
        ELSE IF ~startEnd.found THEN [threw |-> FALSE, appended |-> <<>>]
        ELSE IF getProbabilityForDuration(tbl, duration).kind = "TypeError"
        THEN [threw |-> TRUE, appended |-> <<CurrentPushElements[1]>>]
        ELSE [threw |-> FALSE, appended |-> CurrentPushElements]

RECURSIVE BisectRightIn(_, _, _, _)
BisectRightIn(a, x, lo, hi) ==
    IF lo < hi
    THEN LET mid == (lo + hi) \div 2
         IN  IF RLess(x, a[mid + 1])
             THEN BisectRightIn(a, x, lo, mid)
             ELSE BisectRightIn(a, x, mid + 1, hi)
    ELSE lo

bisectRightBeforeTies(a, x) == BisectLeftIn(a, x, 0, Len(a))

bisectRight(a, x) == BisectRightIn(a, x, 0, Len(a))

\* The interpolation of getDurationforProbability between two Items.
Interpolate(left, right, probability) ==
    RAdd(RDiv(RMul(RSub(probability, left.probability),
                   RSub(right.duration, left.duration)),
              RSub(right.probability, left.probability)),
         left.duration)

\* getDurationforProbability: left = data[bisectLeft - 1] and
\* right = data[bisectRight] (zero-based); reading a field of an undefined
\* left or right throws a TypeError.
getDurationforProbability(tbl, probability) ==
    LET allProbabilities == [i \in DOMAIN tbl |-> tbl[i].probability]
        leftIndex == bisectLeft(allProbabilities, probability) - 1
        rightIndex == bisectRight(allProbabilities, probability)
    IN  IF leftIndex < 0 \/ rightIndex >= Len(tbl) THEN TypeError
        ELSE Value(Interpolate(tbl[leftIndex + 1], tbl[rightIndex + 1], probability))

\* xScale(v) of d3.scaleLinear().domain([0, domain]).rangeRound([0, range]):
\* Math.round(range * v / domain), not clamped; NaN for NaN.
ApplyScale(scale, v) == Round(RDiv(RMul(v, Frac(scale.range, 1)), Frac(scale.domain, 1)))

\* percentileLines.map(d => ({duration: getDurationforProbability(data, d),
\* probability: d})): the markers, or a TypeError when a lookup throws.
QuantileMarkers(tbl, lines) ==
    LET found == [i \in DOMAIN lines |-> getDurationforProbability(tbl, Frac(lines[i], 1))]
    IN  IF \E i \in DOMAIN lines : found[i].kind = "TypeError"
        THEN [kind |-> "TypeError", markers |-> <<>>]
        ELSE [kind |-> "value",
              markers |-> [i \in DOMAIN lines |->
                              [duration |-> found[i].value,
                               probability |-> Frac(lines[i], 1)]]]

\* As TooClose, with a pixelDifference of 14.
TooCloseAt14(scale, q) ==
    \/ RLess(ApplyScale(scale, RSub(q[2].duration, q[1].duration)), Frac(14, 1))
    \/ RLess(ApplyScale(scale, RSub(q[3].duration, q[2].duration)), Frac(14, 1))

\* differences[0] < pixelDifference || differences[1] < pixelDifference,
\* with pixelDifference = 15.
TooClose(scale, q) ==
    \/ RLess(ApplyScale(scale, RSub(q[2].duration, q[1].duration)), Frac(15, 1))
    \/ RLess(ApplyScale(scale, RSub(q[3].duration, q[2].duration)), Frac(15, 1))

OutOfPercentilesLate(lines) == lines[1] < 0 \/ lines[3] > 100

\* The guard that ends the widening: percentileLines[0] < 1 ||
\* percentileLines[2] > 99.
OutOfPercentiles(lines) == lines[1] < 1 \/ lines[3] > 99

----------------------------------------------------------------------------
(* generateYPosition.  A y offset is a pair <<a, e>> standing for           *)
(* a + e * 1e-6 with integers a and e; pixel x coordinates are integers     *)
(* (rangeRound) or NaN.  The inputs explored keep radius2 - x2 a perfect    *)
(* square, so Math.sqrt is exact.                                           *)

Sqrt(n) == CHOOSE r \in 0..n : r * r = n

\* !xi: the x coordinate is 0 or NaN.
Falsy(x) == IsNaN(x) \/ x[1] = 0

\* radius2 > x2 + y2 for x2 = (xi - x) ** 2 and y2 = (yi - y) ** 2.  The
\* comparison is "yes", "no", or "either" when the two sides differ by
\* less than the rounding error of the additions of 1e-6.
Overlaps(radius2, xi, yi, x, y) ==
    IF IsNaN(x) THEN "no"
    ELSE LET x2 == (xi[1] - x[1]) * (xi[1] - x[1])
             da == yi[1] - y[1]
             de == yi[2] - y[2]
             sum == x2 + da * da
         IN  IF sum < radius2 THEN "yes"
             ELSE IF sum > radius2 THEN "no"
             ELSE IF da * de < 0 THEN "yes"
             ELSE IF da * de > 0 THEN "no"
             ELSE IF de = 0 /\ (yi[2] # 0 \/ y[2] # 0) THEN "either"
             ELSE "no"

\* y = yi + Math.sqrt(radius2 - x2) + 1e-6.
Dodge(radius2, xi, yi, x) ==
    <<yi[1] + Sqrt(radius2 - (xi[1] - x[1]) * (xi[1] - x[1])), yi[2] + 1>>

\* The inner loop over the placed coordinates from position i on: the set
\* of values y can end with.
RECURSIVE DodgeFrom(_, _, _, _, _)
DodgeFrom(radius2, coordinates, i, x, y) ==
    IF i > Len(coordinates) THEN {y}
    ELSE LET xi == coordinates[i].x
             yi == coordinates[i].y
         IN  IF Falsy(xi) THEN DodgeFrom(radius2, coordinates, i + 1, x, y)
             ELSE LET o == Overlaps(radius2, xi, yi, x, y)
                      stay == DodgeFrom(radius2, coordinates, i + 1, x, y)
                      move == DodgeFrom(radius2, coordinates, i + 1, x,
                                        Dodge(radius2, xi, yi, x))
                  IN  CASE o = "yes" -> move
                        [] o = "no" -> stay
                        [] OTHER -> stay \cup move

\* The outer loop from input position j on: the coordinate lists it can
\* end with.
RECURSIVE PlaceFrom(_, _, _, _, _)
PlaceFrom(radius2, scale, vals, j, coordinates) ==
    IF j > Len(vals) THEN {coordinates}
    ELSE LET x == ApplyScale(scale, vals[j])
         IN  UNION {PlaceFrom(radius2, scale, vals, j + 1,
                              Append(coordinates, [x |-> x, y |-> y])) :
                       y \in DodgeFrom(radius2, coordinates, 1, x, <<0, 0>>)}

\* generateYPosition(radius, xScale, xVals): the lists coordinates.map(d => d.y)
\* it can return.
generateYPosition(radius, scale, vals) ==
    {[i \in DOMAIN c |-> c[i].y] : c \in PlaceFrom(radius * radius, scale, vals, 1, <<>>)}

----------------------------------------------------------------------------
(* The CDF component: ngAfterViewChecked builds the table, then the hover  *)
(* and click handlers look durations up in it.                             *)

\* A push whose first state, at second 1, has a stage and whose last state
\* starts `dur` seconds later.
StagedPush(dur, finalState) ==
    PushInfo(1, <<StateInfo("stage", 1, 1), StateInfo("stage", finalState, 1 + dur)>>)

\* A completed push none of whose states has a stage.
UnstagedPush == PushInfo(1, <<StateInfo("", 1, 1), StateInfo("", 5, 3)>>)

\* Pushes that end completed (5) or in another final state (4), a null
\* record and an unstaged push.
PushInfoSet ==
    {StagedPush(dur, fs) : dur \in 0..MaxDuration, fs \in {COMPLETED_STATE_TAG, 4}}
        \cup {NullPushInfo, UnstagedPush}

\* The example scenario of the specification: five completed pushes of
\* 1, 2, 3, 4 and 10 minutes.
ExamplePushInfos ==
    <<StagedPush(60, 5), StagedPush(600, 5), StagedPush(180, 5),
      StagedPush(120, 5), StagedPush(240, 5)>>

CdfInputs == SeqsUpTo(PushInfoSet, MaxPushes) \cup {ExamplePushInfos}

\* The divisor that turns seconds into the unit of the table's durations
\* (seconds when the unit is '').
TableDivisor ==
    IF UNIT_CONVERSION(durationUnit) = 0 THEN NANO_TO_SECONDS
    ELSE UNIT_CONVERSION(durationUnit)

\* The durations looked up: every half unit from 0 to MaxDuration + 1 units.
QueryGrid == {Frac(n, 2 * TableDivisor) : n \in 0..(2 * MaxDuration + 2)}

RowsIdle ==
    /\ input = <<>>
    /\ items = <<>>
    /\ data = <<>>
    /\ overlappingIntervals = <<>>
    /\ rowIndex = 0
    /\ lastEndTime = 0
    /\ k = 0
    /\ pc = "idle"

InitCdf ==
    /\ variant \in {"percent", "fraction"}
    /\ pushInfos \in CdfInputs
    /\ durationUnit = ""
    /\ table = <<>>
    /\ queryDuration = Frac(0, 1)
    /\ queryResult = NoResult
    /\ cpc = "init"
    /\ RowsIdle
    /\ ChartIdle
    /\ PageIdle

\* this.durationUnit = findDurationUnit(this.pushInfos);
\* this.data = populateData(this.pushInfos).  The fraction variant has no
\* durationUnit, its durations are in minutes.
PopulateData ==
    /\ cpc = "init"
    /\ durationUnit' = IF variant = "percent" THEN findDurationUnit(pushInfos)
                       ELSE "minutes"
    /\ LET r == IF variant = "percent" THEN populateData(pushInfos)
                ELSE populateDataFraction(pushInfos)
       IN  /\ table' = r.data
           /\ cpc' = IF r.threw THEN "error" ELSE "ready"
    /\ UNCHANGED <<variant, pushInfos, queryDuration, queryResult>>
    /\ UNCHANGED <<rowVars, chartVars, pageVars>>

\* One lookup getProbabilityForDuration(this.data, duration).
Query ==
    /\ cpc = "ready"
    /\ \E d \in QueryGrid :
          /\ queryDuration' = d
          /\ queryResult' = getProbabilityForDuration(table, d)
    /\ UNCHANGED <<variant, pushInfos, durationUnit, table, cpc>>
    /\ UNCHANGED <<rowVars, chartVars, pageVars>>

NextCdf == PopulateData \/ Query

SpecCdf == InitCdf /\ [][NextCdf]_vars

----------------------------------------------------------------------------
(* The chart helpers of the CDF utilities, each called once on the table   *)
(* populateData built: getDurationforProbability, generateQuantiles (one   *)
(* action per outcome of one call body) and generateYPosition.             *)

\* Eleven completed pushes of 10, 20, ..., 110 minutes: the shortest table
\* with an entry below 10 percent.
WidePushInfos == [i \in 1..11 |-> StagedPush(600 * i, 5)]

\* Completed pushes of 2 minutes each, as many as it takes to have an entry
\* below 1 percent.
ClusterPushInfos == [i \in 1..101 |-> StagedPush(120, 5)]

\* Twelve completed pushes: one of 10 minutes, nine of 27 minutes and two of
\* 127 minutes.  The table has an entry below 9 percent, and the markers of
\* 10 and 50 percent are 13.6 minutes apart, those of 9 and 50 percent 15.64.
UnevenPushInfos ==
    [i \in 1..12 |-> StagedPush(IF i = 1 THEN 600 ELSE IF i <= 10 THEN 1620 ELSE 7620, 5)]

ChartInputs ==
    SeqsUpTo({StagedPush(60 * m, 5) : m \in 0..MaxDuration}, MaxPushes)
        \cup {ExamplePushInfos, WidePushInfos, ClusterPushInfos, UnevenPushInfos}

\* Scales of 5 pixels per unit, 1 pixel per unit and 1 pixel per 4 units.
ScaleSet ==
    {[domain |-> 120, range |-> 600], [domain |-> 120, range |-> 120],
     [domain |-> 120, range |-> 30]}

\* The probabilities looked up: every tenth percent and the table's own.
ProbabilityGrid ==
    {Frac(10 * n, 1) : n \in 0..10} \cup {table[i].probability : i \in DOMAIN table}

\* The pushes the page may be on: a push of the chart's pushInfos, a push
\* that failed, a push without stages, a push without a state list, a push
\* with an empty state list and a push whose last state has no start time.
CurrentPushes ==
    Range(pushInfos)
        \cup {StagedPush(60, 4), UnstagedPush,
              [PushInfo(1, <<>>) EXCEPT !.hasStateInfo = FALSE], PushInfo(1, <<>>),
              PushInfo(1, <<StateInfo("stage", 1, 1), StateInfo("stage", 5, 0)>>)}

\* Pixel positions whose pairwise distances are 0, 3, 4 or at least 5, and
\* the sorted lists of up to MaxDots durations that xScale maps onto them.
PixelGrid == {0, 4, 7, 11}

DotInputs ==
    {[i \in DOMAIN px |-> Frac(px[i] * xScale.domain, xScale.range)] :
        px \in {q \in SeqsUpTo(PixelGrid, MaxDots) :
                   \A i \in 1..(Len(q) - 1) : q[i] <= q[i + 1]}}

InitChart ==
    /\ variant = "percent"
    /\ pushInfos \in ChartInputs
    /\ durationUnit = ""
    /\ table = <<>>
    /\ queryDuration = Frac(0, 1)
    /\ queryResult = NoResult
    /\ cpc = "init"
    /\ xScale \in ScaleSet
    /\ queryProbability = Frac(0, 1)
    /\ durationResult = NoResult
    /\ percentileLines = <<>>
    /\ depth = 0
    /\ quantiles = [kind |-> "none", markers |-> <<>>]
    /\ dotRadius = 0
    /\ xVals = <<>>
    /\ yPosition = <<>>
    /\ vpc = "ready"
    /\ currentPush = NullPushInfo
    /\ currentPushLine = <<>>
    /\ RowsIdle
    /\ PageIdle

\* One call getDurationforProbability(data, probability).
LookupDuration ==
    /\ cpc = "ready" /\ vpc = "ready"
    /\ \E p \in ProbabilityGrid :
          /\ queryProbability' = p
          /\ durationResult' = getDurationforProbability(table, p)
    /\ vpc' = "looked"
    /\ UNCHANGED <<xScale, percentileLines, depth, quantiles, dotRadius, xVals, yPosition>>
    /\ UNCHANGED <<currentPush, currentPushLine>>
    /\ UNCHANGED <<rowVars, cdfVars, pageVars>>

\* The call generateQuantiles(data, [10, 50, 90], xScale), in the percent
\* the guards and the table of the current utilities are in.
CallGenerateQuantiles ==
    /\ cpc = "ready" /\ vpc = "ready"
    /\ percentileLines' = <<10, 50, 90>>
    /\ depth' = 0
    /\ vpc' = "quantiles"
    /\ UNCHANGED <<xScale, queryProbability, durationResult, quantiles, dotRadius, xVals,
                   yPosition>>
    /\ UNCHANGED <<currentPush, currentPushLine>>
    /\ UNCHANGED <<rowVars, cdfVars, pageVars>>

\* if (percentileLines[0] < 1 || percentileLines[2] > 99) return the marker
\* of percentileLines[1] only; every enclosing call returns it unchanged.
ReturnMedian ==
    /\ vpc = "quantiles"
    /\ OutOfPercentiles(percentileLines)
    /\ quantiles' = QuantileMarkers(table, <<percentileLines[2]>>)
    /\ vpc' = "returned"
    /\ UNCHANGED <<xScale, queryProbability, durationResult, percentileLines, depth,
                   dotRadius, xVals, yPosition>>
    /\ UNCHANGED <<currentPush, currentPushLine>>
    /\ UNCHANGED <<rowVars, cdfVars, pageVars>>

\* A lookup of the three markers throws.
ThrowInQuantiles ==
    /\ vpc = "quantiles"
    /\ ~OutOfPercentiles(percentileLines)
    /\ QuantileMarkers(table, percentileLines).kind = "TypeError"
    /\ quantiles' = QuantileMarkers(table, percentileLines)
    /\ vpc' = "returned"
    /\ UNCHANGED <<xScale, queryProbability, durationResult, percentileLines, depth,
                   dotRadius, xVals, yPosition>>
    /\ UNCHANGED <<currentPush, currentPushLine>>
    /\ UNCHANGED <<rowVars, cdfVars, pageVars>>

\* The markers are too close: the recursive call with
\* [percentileLines[0] - 1, percentileLines[1], percentileLines[2] + 1].
Widen ==
    /\ vpc = "quantiles"
    /\ ~OutOfPercentiles(percentileLines)
    /\ LET q == QuantileMarkers(table, percentileLines)
       IN  q.kind = "value" /\ TooClose(xScale, q.markers)
    /\ percentileLines' = <<percentileLines[1] - 1, percentileLines[2], percentileLines[3] + 1>>
    /\ depth' = depth + 1
    /\ UNCHANGED <<xScale, queryProbability, durationResult, quantiles, dotRadius, xVals,
                   yPosition, vpc>>
    /\ UNCHANGED <<currentPush, currentPushLine>>
    /\ UNCHANGED <<rowVars, cdfVars, pageVars>>

\* The markers are far enough apart: all three are returned.
ReturnQuantiles ==
    /\ vpc = "quantiles"
    /\ ~OutOfPercentiles(percentileLines)
    /\ LET q == QuantileMarkers(table, percentileLines)
       IN  /\ q.kind = "value" /\ ~TooClose(xScale, q.markers)
           /\ quantiles' = q
    /\ vpc' = "returned"
    /\ UNCHANGED <<xScale, queryProbability, durationResult, percentileLines, depth,
                   dotRadius, xVals, yPosition>>
    /\ UNCHANGED <<currentPush, currentPushLine>>
    /\ UNCHANGED <<rowVars, cdfVars, pageVars>>

\* One call generateYPosition(radius, xScale, xVals) with radius 5.
GenerateYPosition ==
    /\ cpc = "ready" /\ vpc = "ready"
    /\ dotRadius' = 5
    /\ \E vals \in DotInputs :
          /\ xVals' = vals
          /\ yPosition' \in generateYPosition(5, xScale, vals)
    /\ vpc' = "placed"
    /\ UNCHANGED <<xScale, queryProbability, durationResult, percentileLines, depth,
                   quantiles>>
    /\ UNCHANGED <<currentPush, currentPushLine>>
    /\ UNCHANGED <<rowVars, cdfVars, pageVars>>

\* One call addCurrentPushLine(durationUnit, currentPush, currentPushLine,
\* data, height, xScale, yScale) on the empty group of the chart.
AddCurrentPushLine ==
    /\ cpc = "ready" /\ vpc = "ready"
    /\ \E push \in CurrentPushes :
          LET r == addCurrentPushLine(durationUnit, push, table)
          IN  /\ currentPush' = push
              /\ currentPushLine' = r.appended
              /\ vpc' = IF r.threw THEN "lineThrew" ELSE "lineReturned"
    /\ UNCHANGED <<xScale, queryProbability, durationResult, percentileLines, depth,
                   quantiles, dotRadius, xVals, yPosition>>
    /\ UNCHANGED <<rowVars, cdfVars, pageVars>>

NextChart ==
    \/ PopulateData
    \/ LookupDuration
    \/ CallGenerateQuantiles
    \/ ReturnMedian
    \/ ThrowInQuantiles
    \/ Widen
    \/ ReturnQuantiles
    \/ GenerateYPosition
    \/ AddCurrentPushLine

SpecChart == InitChart /\ [][NextChart]_vars

----------------------------------------------------------------------------
(* The charts of one page.  The page hands the same pushInfos array to the *)
(* timeline, the CDF chart and the bar chart, and each chart extracts its  *)
(* data from it; a chart may be rendered again.                            *)

\* A record without a state list.
NoStatesPushInfo ==
    [isNull |-> FALSE, pushHandle |-> 1, hasStateInfo |-> FALSE, stateInfo |-> <<>>]

\* Milliseconds of a time in seconds: nanoseconds / NSEC_PER_MSEC.
ToMsec(t) == t * 1000

statesStartTimeStaged(states) ==
    LET staged == {i \in DOMAIN states : states[i].stage # ""}
    IN  IF staged = {} THEN states[1].startTimeNsec
        ELSE states[Min(staged)].startTimeNsec

\* const statesStartTime = states[0].startTimeNsec of a non-empty list.
statesStartTime(states) == states[1].startTimeNsec

\* The early returns of the timeline's forEach body.
TimelineSkipped(pushInfo) ==
    \/ pushInfo.isNull
    \/ ~pushInfo.hasStateInfo
    \/ statesStartTime(pushInfo.stateInfo) = 0
    \/ LastState(pushInfo.stateInfo).startTimeNsec = 0
    \/ pushInfo.pushHandle = 0
    \/ LastState(pushInfo.stateInfo).state = 0

\* data.push({pushID, state, startTime, endTime, row: 0}).
TimelineItem(pushInfo) ==
    Item(pushInfo.pushHandle,
         ToMsec(statesStartTime(pushInfo.stateInfo)),
         ToMsec(LastState(pushInfo.stateInfo).startTimeNsec))

\* The forEach of the timeline's populateData: the Items handed to
\* divideIntoRows; states[0].startTimeNsec of an empty list throws.
TimelineItems(infos) ==
    LET kept == SelectSeq(infos, LAMBDA pushInfo : ~TimelineSkipped(pushInfo))
    IN  IF \E i \in DOMAIN infos : Throws(infos[i])
        THEN [threw |-> TRUE, data |-> <<>>]
        ELSE [threw |-> FALSE, data |-> [i \in DOMAIN kept |-> TimelineItem(kept[i])]]

\* pushInfos.reverse(): the array reversed in place.
Reverse(s) == [i \in DOMAIN s |-> s[Len(s) + 1 - i]]

\* formatDate(msec, 'yyyy-MM-dd HH:mm:ss', 'en-US'): the time to the second.
FormatDate(msec) == msec \div 1000

\* The early returns of the bar chart's forEach body.
BarSkipped(pushInfo) ==
    \/ pushInfo.isNull
    \/ ~pushInfo.hasStateInfo
    \/ pushInfo.pushHandle = 0
    \/ LastState(pushInfo.stateInfo).state = 0
    \/ pushInfo.stateInfo[1].startTimeNsec = 0
    \/ Len(pushInfo.stateInfo) <= 1
    \/ ~findDuration(pushInfo).found

\* populateData of the bar chart on the array `infos`: findDurationUnit
\* (which throws on an empty state list), then the array reversed in place
\* and one Item per record that is not skipped.  `array` is the array
\* afterwards.
populateBarData(infos) ==
    LET divisor == UNIT_CONVERSION(findDurationUnit(infos))
        kept == SelectSeq(Reverse(infos), LAMBDA pushInfo : ~BarSkipped(pushInfo))
        BarItem(pushInfo) ==
            LET pushStartEnd == findDuration(pushInfo)
            IN  [pushID |-> pushInfo.pushHandle,
                 state |-> LastState(pushInfo.stateInfo).state,
                 startTime |-> FormatDate(ToMsec(pushInfo.stateInfo[1].startTimeNsec)),
                 duration |-> Divide(pushStartEnd.endNsec - pushStartEnd.startNsec, divisor)]
    IN  IF \E i \in DOMAIN infos : Throws(infos[i])
        THEN [threw |-> TRUE, data |-> <<>>, array |-> infos]
        ELSE [threw |-> FALSE,
              data |-> [i \in DOMAIN kept |-> BarItem(kept[i])],
              array |-> Reverse(infos)]

\* Records of every shape the early returns distinguish: well-formed pushes
\* (completed and failed, with a staged or an unstaged first state, with a
\* single state, without any stage) and records that lack a field.
PageRecords ==
    {NullPushInfo,
     NoStatesPushInfo,
     PushInfo(1, <<>>),
     PushInfo(1, <<StateInfo("stage", 1, 1), StateInfo("stage", 5, 3)>>),
     PushInfo(2, <<StateInfo("", 1, 1), StateInfo("stage", 2, 2), StateInfo("stage", 5, 4)>>),
     PushInfo(3, <<StateInfo("stage", 1, 2), StateInfo("stage", 4, 3)>>),
     PushInfo(4, <<StateInfo("stage", 5, 2)>>),
     PushInfo(5, <<StateInfo("", 1, 1), StateInfo("", 5, 3)>>),
     PushInfo(0, <<StateInfo("stage", 1, 1), StateInfo("stage", 5, 3)>>),
     PushInfo(6, <<StateInfo("stage", 1, 0), StateInfo("stage", 5, 3)>>),
     PushInfo(7, <<StateInfo("stage", 1, 1), StateInfo("stage", 5, 0)>>),
     PushInfo(8, <<StateInfo("stage", 1, 1), StateInfo("stage", 0, 3)>>)}

PageInputs == SeqsUpTo(PageRecords, MaxRecords)

InitPage ==
    /\ pushInfos \in PageInputs
    /\ handedOut = pushInfos
    /\ BoxIdle
    /\ barData = <<>>
    /\ calls = <<>>
    /\ raised = FALSE
    /\ variant = "percent"
    /\ durationUnit = ""
    /\ table = <<>>
    /\ queryDuration = Frac(0, 1)
    /\ queryResult = NoResult
    /\ cpc = "idle"
    /\ RowsIdle
    /\ ChartIdle

\* No extraction is running (JavaScript runs one call at a time) and the
\* page has rendered fewer than MaxCalls charts.
MayCall == pc \in {"idle", "done"} /\ Len(calls) < MaxCalls

\* TimelineComponent.populateData(this.pushInfos) up to the call of
\* divideIntoRows, which Sort .. Return carry out.
ExtractTimeline ==
    /\ MayCall
    /\ calls' = Append(calls, "timeline")
    /\ LET r == TimelineItems(pushInfos)
       IN  /\ raised' = r.threw
           /\ input' = r.data
           /\ items' = r.data
           /\ pc' = IF r.threw THEN "idle" ELSE "sort"
    /\ data' = <<>>
    /\ overlappingIntervals' = <<>>
    /\ rowIndex' = 0
    /\ lastEndTime' = 0
    /\ k' = 0
    /\ UNCHANGED <<handedOut, barData, boxLabels, yScaleFocus, dataLabels>>
    /\ UNCHANGED <<cdfVars, chartVars>>

\* this.durationUnit = findDurationUnit(this.pushInfos);
\* this.data = populateData(this.pushInfos) of the CDF chart.
ExtractCdf ==
    /\ MayCall
    /\ calls' = Append(calls, "cdf")
    /\ LET r == populateData(pushInfos)
       IN  /\ raised' = r.threw
           /\ table' = r.data
           /\ durationUnit' = IF r.threw THEN durationUnit ELSE findDurationUnit(pushInfos)
    /\ UNCHANGED <<variant, pushInfos, queryDuration, queryResult, cpc>>
    /\ UNCHANGED <<handedOut, barData, boxLabels, yScaleFocus, dataLabels>>
    /\ UNCHANGED <<rowVars, chartVars>>

\* this.dataAll = populateData(this.pushInfos) of the bar chart.
ExtractBar ==
    /\ MayCall
    /\ calls' = Append(calls, "bar")
    /\ LET r == populateBarData(pushInfos)
       IN  /\ raised' = r.threw
           /\ barData' = r.data
           /\ pushInfos' = r.array
    /\ UNCHANGED <<variant, durationUnit, table, queryDuration, queryResult, cpc>>
    /\ UNCHANGED <<handedOut, boxLabels, yScaleFocus, dataLabels>>
    /\ UNCHANGED <<rowVars, chartVars>>

NextPage ==
    \/ ExtractTimeline
    \/ ExtractCdf
    \/ ExtractBar
    \/ Sort
    \/ WhileEnter
    \/ ForStep
    \/ EndPass
    \/ Return

SpecPage == InitPage /\ [][NextPage]_vars

----------------------------------------------------------------------------
(* The labels of the box plot next to the focus bar chart.                 *)

\* yScale(v) of d3.scaleLinear().domain([0, domain]).range([bottom, top]):
\* bottom + (top - bottom) * v / domain, the y axis pointing down.
ApplyYScale(yScale, v) ==
    RAdd(Frac(yScale.bottom, 1),
         RDiv(RMul(Frac(yScale.top - yScale.bottom, 1), Frac(v, 1)),
              Frac(yScale.domain, 1)))

\* As generateLabels, with pixelDiff instead of pixelDiff * 2 in the first test.
generateLabelsNarrow(labels, yScale) ==
    LET pixelDiff == 8
        Below(i, j, limit) ==
            RLess(RSub(ApplyYScale(yScale, labels[i]), ApplyYScale(yScale, labels[j])),
                  Frac(limit, 1))
    IN  IF Below(1, 5, pixelDiff) THEN <<labels[3]>>
        ELSE IF \E i \in 1..4 : Below(i, i + 1, pixelDiff)
        THEN <<labels[1], labels[3], labels[5]>>
        ELSE labels

\* generateLabels(labels, yScale).
generateLabels(labels, yScale) ==
    LET pixelDiff == 8
        Below(i, j, limit) ==
            RLess(RSub(ApplyYScale(yScale, labels[i]), ApplyYScale(yScale, labels[j])),
                  Frac(limit, 1))
    IN  IF Below(1, 5, pixelDiff * 2) THEN <<labels[3]>>
        ELSE IF \E i \in 1..4 : Below(i, i + 1, pixelDiff)
        THEN <<labels[1], labels[3], labels[5]>>
        ELSE labels

\* The values of a box plot: multiples of 4 duration units.
LabelGrid == {4 * n : n \in 0..MaxLabel}

\* [durationMin, q1, median, q3, durationMax] of sorted durations: in
\* non-decreasing order, and createBoxplot returns before the call when a
\* quantile is 0.
LabelInputs ==
    {l \in [1..5 -> LabelGrid] :
        /\ \A i \in 1..4 : l[i] <= l[i + 1]
        /\ l[2] # 0}

\* Focus scales of 1 pixel and of 2 pixels per duration unit, with a top
\* margin of 10 pixels.
FocusScales ==
    {[domain |-> 4 * MaxLabel, bottom |-> 10 + 4 * MaxLabel, top |-> 10],
     [domain |-> 4 * MaxLabel, bottom |-> 10 + 8 * MaxLabel, top |-> 10]}

InitLabels ==
    /\ boxLabels \in LabelInputs
    /\ yScaleFocus \in FocusScales
    /\ dataLabels = <<>>
    /\ handedOut = <<>>
    /\ barData = <<>>
    /\ calls = <<>>
    /\ raised = FALSE
    /\ RowsIdle
    /\ CdfIdle
    /\ ChartIdle

\* const dataLabels = generateLabels([durationMin, q1, median, q3,
\* durationMax], this.yScaleFocus), once per box plot.
GenerateLabels ==
    /\ dataLabels = <<>>
    /\ Len(boxLabels) = 5
    /\ dataLabels' = generateLabels(boxLabels, yScaleFocus)
    /\ UNCHANGED <<handedOut, barData, calls, raised, boxLabels, yScaleFocus>>
    /\ UNCHANGED <<rowVars, cdfVars, chartVars>>

NextLabels == GenerateLabels

SpecLabels == InitLabels /\ [][NextLabels]_vars

----------------------------------------------------------------------------
(* Properties of divideIntoRows (checked under SpecRows).                  *)

Returned == pc = "done"

\* Two intervals may share a row: one ends no later than the other starts.
NonOverlapping(a, b) == a.endTime <= b.startTime \/ b.endTime <= a.startTime

PairwiseDistinctIDs(its) ==
    \A i, j \in DOMAIN its : i # j => its[i].pushID # its[j].pushID

WellFormed(its) ==
    \A i \in DOMAIN its : 0 <= its[i].startTime /\ its[i].startTime <= its[i].endTime

\* C1: after divideIntoRows returns on a non-empty list of intervals with
\* pairwise distinct pushIDs, startTime >= 0 and endTime >= startTime, any two
\* distinct intervals with the same row do not overlap.
C1_NoOverlapWithinRow ==
    (Returned /\ Len(input) > 0 /\ PairwiseDistinctIDs(input) /\ WellFormed(input))
        => \A i, j \in DOMAIN items :
              (i # j /\ items[i].row = items[j].row)
                  => NonOverlapping(items[i], items[j])

\* A run that ended with two intervals sharing a row and two others apart.
C1_Witness ==
    /\ Returned
    /\ \E i, j \in DOMAIN items : i # j /\ items[i].row = items[j].row
    /\ \E i, j \in DOMAIN items : items[i].row # items[j].row

\* The largest number of intervals that overlap one another.
MaxOverlap(its) ==
    Max({Cardinality(S) : S \in {T \in SUBSET DOMAIN its :
            \A i, j \in T : i # j => ~NonOverlapping(its[i], its[j])}})

\* The rows of an assignment are free of overlaps.
ValidRows(its, f) ==
    \A i, j \in DOMAIN its : (i # j /\ f[i] = f[j]) => NonOverlapping(its[i], its[j])

\* The least number of rows that can hold the intervals without overlap.
MinRows(its) ==
    Min({r \in 1..Len(its) : \E f \in [DOMAIN its -> 0..(r - 1)] : ValidRows(its, f)})

\* C2: the returned row count equals the maximum number of input intervals
\* that mutually overlap at one point in time (the minimum number of rows),
\* for every non-empty input, zero-duration intervals and equal start times
\* in any input order included.
C2_RowCountIsMaxOverlap ==
    (Returned /\ Len(input) > 0)
        => /\ rowIndex = MaxOverlap(input)
           /\ rowIndex = MinRows(input)

\* The references of the current pass that were placed in its row, once the
\* for loop has ended.
PassEnded == pc = "for" /\ k > Len(data)

PlacedInPass == Range(data) \ Range(overlappingIntervals)

\* C3: every row holds as many intervals as possible: no set of pairwise
\* non-overlapping intervals among those unassigned when the pass began is
\* larger than the set the pass placed.
C3_RowHoldsMaximum ==
    PassEnded
        => \A S \in SUBSET Range(data) :
              (\A a, b \in S : a # b => NonOverlapping(items[a], items[b]))
                  => Cardinality(S) <= Cardinality(PlacedInPass)

StripRow(it) == [pushID |-> it.pushID, startTime |-> it.startTime, endTime |-> it.endTime]

Occurrences(its, x) == Cardinality({i \in DOMAIN its : StripRow(its[i]) = x})

\* C4: after divideIntoRows returns, the array holds exactly the input
\* intervals, each once, and every interval has a row r with
\* 0 <= r < returned row count.
C4_Total ==
    Returned
        => /\ Len(items) = Len(input)
           /\ \A i \in DOMAIN input :
                 Occurrences(items, StripRow(input[i])) = Occurrences(input, StripRow(input[i]))
           /\ \A i \in DOMAIN items : 0 <= items[i].row /\ items[i].row < rowIndex

\* A run that returned more than one row for at least three intervals.
C4_Witness == Returned /\ Len(items) >= 3 /\ rowIndex >= 2 /\ items # input

\* Position of input element i in ascending startTime order, ties in input
\* order.
Rank(inp, i) ==
    1 + Cardinality({j \in DOMAIN inp :
            \/ inp[j].startTime < inp[i].startTime
            \/ (inp[j].startTime = inp[i].startTime /\ j < i)})

\* One-pass first-fit: rowEnds[r] is the endTime of the interval most recently
\* placed in row r - 1; the result maps input positions to rows.
RECURSIVE FirstFitFrom(_, _, _, _)
FirstFitFrom(inp, n, rowEnds, rows) ==
    IF n > Len(inp) THEN rows
    ELSE LET i == CHOOSE j \in DOMAIN inp : Rank(inp, j) = n
             free == {r \in DOMAIN rowEnds : rowEnds[r] <= inp[i].startTime}
         IN  IF free = {}
             THEN FirstFitFrom(inp, n + 1, Append(rowEnds, inp[i].endTime),
                               [rows EXCEPT ![i] = Len(rowEnds)])
             ELSE FirstFitFrom(inp, n + 1, [rowEnds EXCEPT ![Min(free)] = inp[i].endTime],
                               [rows EXCEPT ![i] = Min(free) - 1])

FirstFit(inp) == FirstFitFrom(inp, 1, <<>>, [i \in DOMAIN inp |-> 0])

\* The row divideIntoRows left on the interval that was input[i].
RowOfInput(i) ==
    LET at == CHOOSE j \in DOMAIN items : StripRow(items[j]) = StripRow(input[i])
    IN  items[at].row

\* C5: the multi-pass packing equals one-pass first-fit in ascending startTime
\* order (ties in input order); the example intervals get rows 0,1,0,0,1 and
\* the row count is 2.
C5_EqualsFirstFit ==
    (Returned /\ Len(input) > 0)
        => /\ \A i \in DOMAIN input : RowOfInput(i) = FirstFit(input)[i]
           /\ rowIndex = 1 + Max({FirstFit(input)[i] : i \in DOMAIN input})
           /\ input = ExampleIntervals
                 => /\ [i \in DOMAIN input |-> RowOfInput(i)] = <<0, 1, 0, 0, 1>>
                    /\ rowIndex = 2

\* The run on the example intervals has returned.
C5_Witness == Returned /\ input = ExampleIntervals /\ rowIndex = 2

\* Positions of the current pass, before k, whose interval was placed.
PlacedBefore == {j \in 1..(k - 1) : j <= Len(data) /\ data[j] \notin Range(overlappingIntervals)}

\* C6: an interval whose startTime equals the endTime of the interval last
\* placed in the current row is placed in that same row, and a zero-duration
\* interval is accepted like any other (placed when it starts at or after the
\* end of the interval last placed, or when the row is still empty).
C6_TouchingSharesRow ==
    [][(pc = "for" /\ k <= Len(data))
          => LET x == items[data[k]]
                 touching == /\ PlacedBefore # {}
                             /\ x.startTime = items[data[Max(PlacedBefore)]].endTime
                 zeroFits == /\ x.startTime = x.endTime
                             /\ \/ PlacedBefore = {}
                                \/ x.startTime >= items[data[Max(PlacedBefore)]].endTime
             IN  (touching \/ zeroFits)
                    => /\ overlappingIntervals' = overlappingIntervals
                       /\ items'[data[k]].row = rowIndex
                       /\ PlacedBefore # {} => items'[data[Max(PlacedBefore)]].row = rowIndex
      ]_vars

\* A returned run in which a row holds an interval of positive duration, an
\* interval starting exactly at its end, and a zero-duration interval.
C6_Witness ==
    /\ Returned
    /\ \E i, j, z \in DOMAIN items :
          /\ i # j /\ j # z /\ i # z
          /\ items[i].row = items[j].row /\ items[z].row = items[i].row
          /\ items[i].startTime < items[i].endTime
          /\ items[i].endTime = items[j].startTime
          /\ items[j].startTime < items[j].endTime
          /\ items[z].startTime = items[z].endTime

----------------------------------------------------------------------------
(* Properties of the CDF table and its lookup (checked under SpecCdf).     *)

TableBuilt == cpc = "ready"

\* 100 for the percentage variant, 1 for the fraction variant.
Scale == IF variant = "percent" THEN 100 ELSE 1

Durations(tbl) == [i \in DOMAIN tbl |-> tbl[i].duration]

Probabilities(tbl) == [i \in DOMAIN tbl |-> tbl[i].probability]

SameNumbers(s, t) == Len(s) = Len(t) /\ \A i \in DOMAIN s : REq(s[i], t[i])

C8_GreatestEntryAtOrBelow ==
    (/\ TableBuilt
     /\ queryResult.kind # "none"
     /\ Len(table) > 0
     /\ RLeq(table[1].duration, queryDuration))
        => LET atOrBelow == {i \in DOMAIN table : RLeq(table[i].duration, queryDuration)}
           IN  /\ queryResult.kind = "value"
               /\ REq(queryResult.value, table[Max(atOrBelow)].probability)

\* C9: round trip: for every entry s of a table of pairwise distinct
\* durations, getProbabilityForDuration(table, s.duration) = s.probability.
C9_RoundTrip ==
    (/\ TableBuilt
     /\ queryResult.kind # "none"
     /\ \A i, j \in DOMAIN table : i # j => ~REq(table[i].duration, table[j].duration))
        => \A i \in DOMAIN table :
              REq(table[i].duration, queryDuration)
                  => /\ queryResult.kind = "value"
                     /\ REq(queryResult.value, table[i].probability)

\* C10: for a fixed table getProbabilityForDuration is non-decreasing in the
\* duration: for d1 <= d2 on which the lookup returns a value,
\* result(d1) <= result(d2).
C10_LookupMonotone ==
    (TableBuilt /\ queryResult.kind = "value")
        => \A d \in QueryGrid :
              LET r == getProbabilityForDuration(table, d)
              IN  r.kind = "value"
                     => /\ RLeq(queryDuration, d) => RLeq(queryResult.value, r.value)
                        /\ RLeq(d, queryDuration) => RLeq(r.value, queryResult.value)

\* A lookup returned a value and a larger duration returns a larger one.
C10_Witness ==
    /\ TableBuilt
    /\ queryResult.kind = "value"
    /\ \E d \in QueryGrid :
          /\ RLess(queryDuration, d)
          /\ getProbabilityForDuration(table, d).kind = "value"
          /\ RLess(queryResult.value, getProbabilityForDuration(table, d).value)

\* C19: getProbabilityForDuration fails only when the table is empty or the
\* queried duration is below the smallest table duration; for every
\* duration at or above the smallest table duration it returns the
\* probability of a table entry.
C19_FailsOnlyBelowMinimum ==
    (TableBuilt /\ queryResult.kind # "none") =>
        /\ queryResult.kind = "TypeError"
              => (Len(table) = 0 \/ RLess(queryDuration, table[1].duration))
        /\ (Len(table) > 0 /\ RLeq(table[1].duration, queryDuration))
              => /\ queryResult.kind = "value"
                 /\ \E i \in DOMAIN table : REq(queryResult.value, table[i].probability)

\* C20: findDurationUnit returns one of the unit names, never the empty
\* string, so the divisor UNIT_CONVERSION[findDurationUnit(pushInfos)] of
\* populateData is a defined positive number.
C20_UnitIsNamed ==
    (TableBuilt /\ variant = "percent") =>
        /\ durationUnit \in Range(UnitOrder)
        /\ UNIT_CONVERSION(durationUnit) > 0

----------------------------------------------------------------------------
(* Properties of the chart helpers (checked under SpecChart).              *)

Looked == vpc = "looked"

\* The table of the example scenario: durations 1, 2, 3, 4, 10 (minutes)
\* with probabilities 20, 40, 60, 80, 100.
OnExampleTable == cpc = "ready" /\ pushInfos = ExamplePushInfos

\* C11 as stated: getDurationforProbability interpolates between two
\* adjacent table entries that bracket p, left at or below p and right at
\* or above it, and on the example table p = 50 yields 3.5 (between (3,60)
\* and (4,80)).
C11_AdjacentBracket ==
    (Looked /\ durationResult.kind = "value") =>
        /\ \E i \in 1..(Len(table) - 1) :
              /\ RLeq(table[i].probability, queryProbability)
              /\ RLeq(queryProbability, table[i + 1].probability)
              /\ durationResult.value = Interpolate(table[i], table[i + 1], queryProbability)
        /\ (OnExampleTable /\ queryProbability = Frac(50, 1))
              => durationResult.value = Frac(7, 2)

\* C11 (amended): getDurationforProbability takes left = the last entry whose
\* probability is strictly below p and right = the first entry whose
\* probability is strictly above p (an entry with probability exactly p is
\* skipped, so left and right are then not adjacent), returns
\* left.duration + (p - left.probability) * (right.duration - left.duration)
\* / (right.probability - left.probability) when both exist and throws a
\* TypeError otherwise; on the example table p = 50 yields 2.5 (between
\* (2,40) and (3,60)).
C11_StrictBracket ==
    Looked =>
        LET below == {i \in DOMAIN table : RLess(table[i].probability, queryProbability)}
            above == {i \in DOMAIN table : RLess(queryProbability, table[i].probability)}
        IN  /\ durationResult =
                  IF below = {} \/ above = {} THEN TypeError
                  ELSE Value(Interpolate(table[Max(below)], table[Min(above)],
                                         queryProbability))
            /\ (OnExampleTable /\ queryProbability = Frac(50, 1))
                  => durationResult = Value(Frac(5, 2))

\* The example lookup of C11 has run.
C11_Witness ==
    /\ Looked /\ OnExampleTable
    /\ queryProbability = Frac(50, 1)
    /\ durationResult = Value(Frac(5, 2))

QuantilesReturned == vpc = "returned"

\* C12: generateQuantiles(table, [10, 50, 90], xScale) on a non-empty table
\* returns either exactly three markers or exactly one marker, the one of
\* the mid probability 50.
C12_ThreeOrOneMarker ==
    (QuantilesReturned /\ table # <<>>) =>
        /\ quantiles.kind = "value"
        /\ \/ Len(quantiles.markers) = 3
           \/ /\ Len(quantiles.markers) = 1
              /\ quantiles.markers[1].probability = Frac(50, 1)

QuantilesCalled == vpc \in {"quantiles", "returned"}

\* C13: the recursion of generateQuantiles terminates: the call made at
\* nesting depth d has percentileLines [10 - d, 50, 90 + d], so d, which
\* grows with every recursive call, never exceeds 10, and the call at
\* depth 10 returns the mid marker only.
C13_RecursionTerminates ==
    QuantilesCalled =>
        /\ depth <= 10
        /\ percentileLines = <<10 - depth, 50, 90 + depth>>
        /\ (QuantilesReturned /\ depth = 10) =>
              /\ quantiles.kind = "value"
              /\ Len(quantiles.markers) = 1
              /\ quantiles.markers[1].probability = Frac(50, 1)

\* The widening went all the way: ten nested calls, then the mid marker.
C13_Witness ==
    /\ QuantilesReturned
    /\ depth = 10
    /\ quantiles.kind = "value"
    /\ Len(quantiles.markers) = 1

Placed == vpc = "placed"

\* The pixel x coordinate of dot i.
DotX(i) == ApplyScale(xScale, xVals[i])[1]

\* The Euclidean distance between dots i and j is at least
\* minDistance - 1e-6: the squares are compared as polynomials in 1e-6.
AtLeastApart(i, j, minDistance) ==
    LET dx == DotX(i) - DotX(j)
        da == yPosition[i][1] - yPosition[j][1]
        de == yPosition[i][2] - yPosition[j][2]
        whole == dx * dx + da * da
        bound == minDistance * minDistance
    IN  \/ whole > bound
        \/ /\ whole = bound
           /\ \/ 2 * da * de > -2 * minDistance
              \/ (2 * da * de = -2 * minDistance /\ de * de >= 1)

\* C14: the offsets generateYPosition returns are collision free: any two
\* dots are at least 2 * radius - epsilon apart.
C14_CollisionFree ==
    Placed =>
        \A i, j \in DOMAIN xVals :
            i # j => AtLeastApart(i, j, 2 * dotRadius)

----------------------------------------------------------------------------
(* Properties of the extractions (checked under SpecPage).                 *)

LastCall == IF calls = <<>> THEN "none" ELSE calls[Len(calls)]

\* The timeline's forEach has just built the Items, in the order of the
\* records that were not skipped.
TimelineExtracted == pc = "sort"

\* The records C15 calls well formed: none of the listed fields is missing.
HasRequiredFields(pushInfo) ==
    /\ ~pushInfo.isNull
    /\ pushInfo.hasStateInfo
    /\ Len(pushInfo.stateInfo) > 0
    /\ pushInfo.stateInfo[1].startTimeNsec # 0
    /\ pushInfo.stateInfo[Len(pushInfo.stateInfo)].startTimeNsec # 0
    /\ pushInfo.pushHandle # 0
    /\ pushInfo.stateInfo[Len(pushInfo.stateInfo)].state # 0

\* C15: no extraction raises on a malformed record (an empty state list
\* included): the record is omitted, and every record with all required
\* fields contributes exactly one timeline item.
C15_NeverRaises ==
    /\ ~raised
    /\ TimelineExtracted =>
          Len(input) = Cardinality({i \in DOMAIN pushInfos : HasRequiredFields(pushInfos[i])})

\* C16: the extractions leave the shared pushInfos array as the page handed
\* it out (same records, same order), so each returns what it returns on
\* that array, whatever ran before it.
C16_InputUnchanged ==
    /\ pushInfos = handedOut
    /\ TimelineExtracted => input = TimelineItems(handedOut).data
    /\ (LastCall = "cdf" /\ ~raised) => table = populateData(handedOut).data
    /\ (LastCall = "bar" /\ ~raised) => barData = populateBarData(handedOut).data

\* The records a timeline item can stem from: those with its pushID for
\* which the CDF measures a window.
Measured(item) ==
    {i \in DOMAIN pushInfos :
        /\ ~pushInfos[i].isNull
        /\ pushInfos[i].pushHandle = item.pushID
        /\ findDuration(pushInfos[i]).found}

\* C17 as stated: the timeline Interval and the CDF sample of the same push
\* record both start at the first state whose stage is non-empty and end
\* at the last state.
C17_SameWindow ==
    TimelineExtracted =>
        \A n \in DOMAIN input : \A i \in Measured(input[n]) :
            LET w == findDuration(pushInfos[i])
            IN  /\ input[n].startTime = ToMsec(w.startNsec)
                /\ input[n].endTime = ToMsec(w.endNsec)

\* C17 (amended): both windows end at the last state; the CDF sample starts
\* at the first state that has a stage and a timestamp, the timeline
\* Interval at the first state of the list whatever its stage, so the two
\* windows coincide when the first state has a stage.
C17_WindowStarts ==
    TimelineExtracted =>
        \A n \in DOMAIN input : \A i \in Measured(input[n]) :
            LET states == pushInfos[i].stateInfo
                w == findDuration(pushInfos[i])
                staged == {j \in DOMAIN states :
                              states[j].stage # "" /\ states[j].startTimeNsec # 0}
            IN  /\ input[n].endTime = ToMsec(states[Len(states)].startTimeNsec)
                /\ w.endNsec = states[Len(states)].startTimeNsec
                /\ input[n].startTime = ToMsec(states[1].startTimeNsec)
                /\ w.startNsec = states[Min(staged)].startTimeNsec
                /\ states[1].stage # "" => input[n].startTime = ToMsec(w.startNsec)

\* The timeline extracted a push whose first state has no stage: its
\* Interval starts a second before the window the CDF measures.
C17_Witness ==
    /\ TimelineExtracted
    /\ \E n \in DOMAIN input : \E i \in Measured(input[n]) :
          /\ pushInfos[i].stateInfo[1].stage = ""
          /\ input[n].startTime = 1000
          /\ findDuration(pushInfos[i]).startNsec = 2

CdfExtracted == LastCall = "cdf" /\ ~raised

HasStagedState(pushInfo) ==
    \E j \in DOMAIN pushInfo.stateInfo :
        pushInfo.stateInfo[j].stage # "" /\ pushInfo.stateInfo[j].startTimeNsec # 0

----------------------------------------------------------------------------
(* Claims about the chart helpers, continued (checked under SpecChart).    *)

LineCalled == vpc \in {"lineThrew", "lineReturned"}

\* The push ends completed and has a state with a stage and a start time.
CompletedAndStaged(push) ==
    /\ push.hasStateInfo /\ Len(push.stateInfo) > 0
    /\ LastState(push.stateInfo).state = COMPLETED_STATE_TAG
    /\ HasStagedState(push)

\* The duration of the push is one of the durations of the table.
DurationInTable(push) ==
    LET startEnd == findDuration(push)
    IN  /\ startEnd.found
        /\ \E i \in DOMAIN table :
              REq(table[i].duration,
                  Divide(startEnd.endNsec - startEnd.startNsec,
                         UNIT_CONVERSION(durationUnit)))

\* C21: addCurrentPushLine appends the current-push line exactly for a push
\* that ends completed and has a staged state; for every such push whose
\* duration is in the table, the smallest duration included, the call
\* completes without error and draws the line, and for any other push it
\* appends nothing.
C21_LineIffCompleted ==
    LineCalled =>
        IF CompletedAndStaged(currentPush) /\ DurationInTable(currentPush)
        THEN vpc = "lineReturned" /\ currentPushLine = CurrentPushElements
        ELSE ~CompletedAndStaged(currentPush) => currentPushLine = <<>>

\* The markers generateQuantiles computes for the widening k.
MarkersAt(widening) == QuantileMarkers(table, <<10 - widening, 50, 90 + widening>>)

\* Both adjacent gaps of three markers map to at least 15 pixels.
GapsAtLeast15(q) ==
    /\ RLeq(Frac(15, 1), ApplyScale(xScale, RSub(q[2].duration, q[1].duration)))
    /\ RLeq(Frac(15, 1), ApplyScale(xScale, RSub(q[3].duration, q[2].duration)))

\* C25: when generateQuantiles returns three markers they carry the
\* probabilities [10 - k, 50, 90 + k] for the smallest k >= 0 at which both
\* adjacent duration gaps map to at least 15 px: the mid probability is
\* unchanged, both gaps of the returned markers are at least 15 px, and the
\* markers of every smaller k are too close.
C25_SmallestWidening ==
    (QuantilesReturned /\ quantiles.kind = "value" /\ Len(quantiles.markers) = 3) =>
        /\ quantiles = MarkersAt(depth)
        /\ [i \in 1..3 |-> quantiles.markers[i].probability]
              = <<Frac(10 - depth, 1), Frac(50, 1), Frac(90 + depth, 1)>>
        /\ GapsAtLeast15(quantiles.markers)
        /\ \A j \in 0..(depth - 1) :
              MarkersAt(j).kind = "value" /\ ~GapsAtLeast15(MarkersAt(j).markers)

\* Three markers returned after the outer percentiles were widened.
C25_Witness ==
    /\ QuantilesReturned /\ quantiles.kind = "value" /\ Len(quantiles.markers) = 3
    /\ depth >= 1

\* The probabilities the running call body of generateQuantiles looks up.
LookedUpInCall ==
    IF OutOfPercentiles(percentileLines) THEN {percentileLines[2]}
    ELSE Range(percentileLines)

\* C28: for every non-empty table built by populateData,
\* generateQuantiles(table, [10, 50, 90], xScale) completes without an
\* out-of-range table access: every probability it passes to
\* getDurationforProbability, at every recursion depth, has a table entry
\* with a probability below it and a table entry with a probability above it.
C28_LookupsInRange ==
    (vpc = "quantiles" /\ table # <<>>) =>
        \A p \in LookedUpInCall :
            /\ \E i \in DOMAIN table : RLess(table[i].probability, Frac(p, 1))
            /\ \E i \in DOMAIN table : RLess(Frac(p, 1), table[i].probability)

\* The inner loop of a placement that compares the point with every placed
\* point: as DodgeFrom, but only a NaN coordinate, which no comparison
\* matches, is passed over.
RECURSIVE DodgeAllFrom(_, _, _, _, _)
DodgeAllFrom(radius2, coordinates, i, x, y) ==
    IF i > Len(coordinates) THEN {y}
    ELSE LET xi == coordinates[i].x
             yi == coordinates[i].y
         IN  IF IsNaN(xi) THEN DodgeAllFrom(radius2, coordinates, i + 1, x, y)
             ELSE LET o == Overlaps(radius2, xi, yi, x, y)
                      stay == DodgeAllFrom(radius2, coordinates, i + 1, x, y)
                      move == DodgeAllFrom(radius2, coordinates, i + 1, x,
                                           Dodge(radius2, xi, yi, x))
                  IN  CASE o = "yes" -> move
                        [] o = "no" -> stay
                        [] OTHER -> stay \cup move

\* The offsets the point at input position j can get when it is compared
\* with every point placed before it, at the offsets yPosition gives them.
OffsetsAgainstAll(j) ==
    LET placed == [i \in 1..(j - 1) |->
                      [x |-> ApplyScale(xScale, xVals[i]), y |-> yPosition[i]]]
    IN  DodgeAllFrom(dotRadius * dotRadius, placed, 1,
                     ApplyScale(xScale, xVals[j]), <<0, 0>>)

\* At offset 0 the point at input position j collides with none of the
\* points placed before it.
CollidesWithNone(j) ==
    \A i \in 1..(j - 1) :
        Overlaps(dotRadius * dotRadius, ApplyScale(xScale, xVals[i]), yPosition[i],
                 ApplyScale(xScale, xVals[j]), <<0, 0>>) = "no"

\* C26: while placing a point, generateYPosition compares it with every
\* point placed before it, whatever that point's pixel x coordinate is (a
\* point whose xScale value is 0 included), and a point that collides with
\* none of them keeps offset 0.
C26_ComparesWithAll ==
    Placed =>
        \A j \in DOMAIN xVals :
            /\ yPosition[j] \in OffsetsAgainstAll(j)
            /\ CollidesWithNone(j) => yPosition[j] = <<0, 0>>

\* No duration of the table is NaN.
TableIsNumeric == \A i \in DOMAIN table : ~IsNaN(table[i].duration)

\* C29: for a fixed table built by populateData, getDurationforProbability is
\* non-decreasing in the probability: for all p <= q on which it is defined,
\* p or q equal to a table entry's probability included, result(p) <=
\* result(q); hence the markers generateQuantiles returns are in
\* non-decreasing duration order.
C29_DurationMonotone ==
    /\ (Looked /\ TableIsNumeric /\ durationResult.kind = "value") =>
           \A q \in ProbabilityGrid :
               (RLeq(queryProbability, q)
                    /\ getDurationforProbability(table, q).kind = "value")
                   => RLeq(durationResult.value, getDurationforProbability(table, q).value)
    /\ (QuantilesReturned /\ TableIsNumeric /\ quantiles.kind = "value") =>
           \A i \in 1..(Len(quantiles.markers) - 1) :
               RLeq(quantiles.markers[i].duration, quantiles.markers[i + 1].duration)

----------------------------------------------------------------------------
(* Claims about divideIntoRows, continued (checked under SpecRows).        *)

\* C22: divideIntoRows terminates on every non-empty input whose start times
\* are >= 0: every pass assigns at least the first remaining interval, so
\* the number of remaining intervals strictly decreases from pass to pass and
\* at most n passes run for n intervals.
C22_PassesBounded ==
    (Len(input) > 0 /\ WellFormed(input) /\ pc \in {"while", "for", "done"}) =>
        /\ rowIndex <= Len(input)
        /\ (pc = "for" /\ k > 1) => items[data[1]].row = rowIndex
        /\ (pc = "for" /\ k > Len(data)) => Len(overlappingIntervals) < Len(data)
        /\ (pc \in {"while", "done"} /\ rowIndex > 0) =>
               /\ Len(data) <= Len(input) - rowIndex
               /\ Len(overlappingIntervals) = Len(data)

\* A run of as many passes as there are intervals, three or more.
C22_Witness ==
    Returned /\ Len(input) >= 3 /\ rowIndex = Len(input)

\* The row indices carried by the intervals.
RowsInUse == {items[i].row : i \in DOMAIN items}

\* C24: the number divideIntoRows returns equals the number of distinct row
\* indices in use: for non-empty input the assigned rows are exactly
\* 0..rowCount-1, with at least one interval in each.
C24_RowsAreDense ==
    (Returned /\ Len(input) > 0) =>
        /\ RowsInUse = 0..(rowIndex - 1)
        /\ Cardinality(RowsInUse) = rowIndex

\* A run that returned two rows or more, one of them shared.
C24_Witness ==
    Returned /\ rowIndex >= 2 /\ Len(input) > rowIndex

----------------------------------------------------------------------------
(* Claims about divideIntoRows on lists whose pushIDs need not be distinct *)
(* (checked under SpecSharedIDs).                                          *)

\* C23: for every input, pushIDs distinct or not, the row of each interval is
\* written exactly once, in the pass that selects the interval, with that
\* pass's index, and a pass leaves the row of an interval it does not select
\* unchanged: a step of the pass that selects the interval at data[k] writes
\* rowIndex on that interval and on no other, and a step that does not
\* select it changes no row.
C23_WritesSelectedRow ==
    [][(pc = "for" /\ k <= Len(data)) =>
          IF Fits(items[data[k]], lastEndTime)
          THEN items' = [items EXCEPT ![data[k]].row = rowIndex]
          ELSE items' = items]_vars

----------------------------------------------------------------------------
(* Claims about the charts of one page, continued (checked under SpecPage). *)

\* The timeline's populateData has returned [items, rowIndex].
TimelineReturned == pc = "done" /\ Len(calls) > 0

\* C30: the timeline's populateData returns row count 0 whenever it extracts
\* no interval (an empty array or an array all of whose records are
\* skipped), and the row count it returns is 0 exactly when the returned
\* item list is empty.
C30_NoRowsWithoutItems ==
    TimelineReturned => (rowIndex = 0 <=> Len(items) = 0)

----------------------------------------------------------------------------
(* Claims about the labels of the box plot (checked under SpecLabels).     *)

LabelsGenerated == dataLabels # <<>>

\* The distance in pixels between two values on the focus chart's y axis,
\* multiplied by the length of the scale's domain.
ScaledPixelsApart(a, b) == Abs(a - b) * Abs(yScaleFocus.bottom - yScaleFocus.top)

\* The two values are less than `limit` pixels apart.
CloserThan(a, b, limit) == ScaledPixelsApart(a, b) < limit * yScaleFocus.domain

====
